---- MODULE Spec2Model ----
(***************************************************************************)
(* Model of the Lianjia crawler: the listing crawl of src/src/main.py      *)
(* (get_html, extract, categorise, info_to_row and the page loop) and the  *)
(* detail merge run of src/src/detail_scraper.py (request_detail,          *)
(* parse_detail, merge_detail, write_csv and main).                        *)
(*                                                                         *)
(* Texts are sequences of tokens (strings); the empty text '' is << >>,    *)
(* Python's None is the one-token text NoneV.  "x in text" for a keyword x *)
(* is membership of the token in the text; s + t is s \o t.  Chinese      *)
(* keywords and labels are written in pinyin.                              *)
(***************************************************************************)
EXTENDS Integers, Sequences, FiniteSets, TLC

VARIABLES
    pc,         \* position of the running program
    html,       \* extract: the page handed to extract(); crawl: unused
    li_idx,     \* extract: number of <li> items already processed
    out,        \* extract: infos built so far / the result of extract()
    page,       \* crawl: current page of range(left, right + 1)
    cycle,      \* crawl: `attempt` of the page loop, range(5)
    call,       \* the fetch call in progress (get_html / request_detail)
    lastCall,   \* the fetch call that ended and whose outcome its caller holds
    pageStatus, \* crawl: page -> pending | extracted | page_failed
    cycles,     \* crawl: outcomes of the (fetch, extract) cycles of the current page
    pageInfo,   \* crawl: page -> the records extracted from it
    csv_is_new, \* crawl: the CSV file did not exist when the run started
    last_error, \* crawl: last_error of the page loop
    infos,      \* crawl: run accumulator; detail: the loaded input records
    csvBuf,     \* crawl: rows written to csv_file, not yet flushed
    csvDisk,    \* crawl: rows of the CSV file on disk; detail: output CSV
    jsonFile,   \* crawl: content of the JSON dataset (NoFile if not written)
    jsonWrites, \* crawl: number of times the JSON dataset was written
    printed,    \* messages printed by the program
    index,      \* detail: number of input records already handled
    rows,       \* detail: rows built so far
    prewarmed,  \* detail: request_detail._prewarmed
    netLog,     \* detail: network requests issued, in order
    outcome     \* detail: what happened to each input record handled so far

vars == <<pc, html, li_idx, out, page, cycle, call, lastCall, pageStatus,
          cycles, pageInfo, csv_is_new, last_error, infos, csvBuf, csvDisk, jsonFile, jsonWrites,
          printed, index, rows, prewarmed, netLog, outcome>>

extractVars == <<html, li_idx, out>>
crawlVars == <<page, cycle, pageStatus, cycles, pageInfo, csv_is_new,
               last_error, csvBuf, jsonFile, jsonWrites>>
detailVars == <<index, rows, prewarmed, netLog, outcome>>

-----------------------------------------------------------------------------
\* Bounds of the model
MaxItems == 2       \* <li> items on a results page
MaxPages == 3       \* pages of the requested range (left = 1, right = MaxPages)
MaxRecords == 2     \* input records of the detail merge run
MaxSegments == 3    \* segments of the address text handed to categorise

\* Program constants
GetHtmlRetries == 3
DetailRetries == 3
PageCycles == 5
StatusLimit == 120

NoneV == <<"<None>">>
NoFile == <<"<no file>">>

Range(s) == {s[i] : i \in 1..Len(s)}

Min(a, b) == IF a < b THEN a ELSE b

\* sep.join(list) for a sequence of texts
RECURSIVE Join(_, _)
Join(sep, parts) ==
    IF parts = << >> THEN << >>
    ELSE IF Len(parts) = 1 THEN parts[1]
    ELSE parts[1] \o sep \o Join(sep, Tail(parts))

\* [x for x in list if x.strip()] ; a whitespace-only text is << " " >>
Strip(t) == SelectSeq(t, LAMBDA tok : tok # " ")
StripNonEmpty(list) ==
    LET F[i \in 0..Len(list)] ==
            IF i = 0 THEN << >>
            ELSE IF Strip(list[i]) # << >> THEN Append(F[i-1], Strip(list[i]))
            ELSE F[i-1]
    IN F[Len(list)]

-----------------------------------------------------------------------------
\* categorise (main.py)

FeatureKeys == <<"configuration", "area", "towards", "decorate", "storey",
                 "period", "categorie">>

features(key) ==
    CASE key = "configuration" -> <<"shi", "ting">>
      [] key = "area" -> <<"pingmi">>
      [] key = "towards" -> <<"dong", "nan", "xi", "bei">>
      [] key = "decorate" -> <<"jingzhuang", "jianzhuang", "maopi">>
      [] key = "storey" -> <<"ceng">>
      [] key = "period" -> <<"nian">>
      [] key = "categorie" -> <<"bantajiehe", "banlou", "talou">>

\* `value in detail` for some value of the key's keyword list
Matches(key, detail) == \E v \in Range(features(key)) : v \in Range(detail)

\* res[key] after the first i passes of `for detail in details`: pass i
\* rebinds the key when details[i] matches it (NoneV: the key is not in res)
BoundFirstMatch(key, details, i) ==
    LET V[j \in 0..i] ==
            IF j = 0 THEN NoneV
            ELSE IF V[j-1] = NoneV /\ Matches(key, details[j]) THEN details[j]
            ELSE V[j-1]
    IN V[i]
Bound(key, details, i) ==
    LET V[j \in 0..i] ==
            IF j = 0 THEN NoneV
            ELSE IF Matches(key, details[j]) THEN details[j]
            ELSE V[j-1]
    IN V[i]

EmptyDict == [k \in {} |-> << >>]

\* Op(x), with x evaluated once
Eval(Op(_), x) == CHOOSE r \in {Op(v) : v \in {x}} : TRUE

\* The dict built by the loops of categorise for a list of segments
CategoriseList(details) ==
    [k \in {key \in Range(FeatureKeys) :
               \E i \in 1..Len(details) : Matches(key, details[i])}
        |-> Bound(k, details, Len(details))]

\* categorise(details) for a list; categorise(None) raises TypeError
categorise(details) == Eval(CategoriseList, details)

-----------------------------------------------------------------------------
\* extract (main.py): one <li> node is a record of the xpath result lists

\* re.search(the follow-count pattern, text) etc.: the token that matches and its group
FollowGroup(tok) ==
    CASE tok = "12 ren guanzhu" -> <<"12">>
      [] tok = "3 ren guanzhu" -> <<"3">>
      [] OTHER -> NoneV
VisitGroup(tok) ==
    CASE tok = "gong 5 ci daikan" -> <<"5">>
      [] OTHER -> NoneV
PublishGroup(tok) ==
    CASE tok = "7 tian yiqian fabu" -> <<"7 tian yiqian fabu">>
      [] tok = "jintian fabu" -> <<"jintian fabu">>
      [] tok = "ganggang fabu" -> <<"ganggang fabu">>
      [] OTHER -> NoneV

\* re.search: group(1) of the first match in the text, None without a match
Search(group(_), text) ==
    LET hits == {i \in 1..Len(text) : group(text[i]) # NoneV}
    IN IF hits = {} THEN NoneV
       ELSE group(text[CHOOSE i \in hits : \A j \in hits : i <= j])

FirstOrNone(list) == IF list # << >> THEN list[1] ELSE NoneV

\* text.split(' | '): the segments between the separator tokens
Split(text) ==
    LET \* the positions of the separators, in order
        seps == SelectSeq([i \in 1..Len(text) |-> i], LAMBDA i : text[i] = " | ")
        \* position of the k-th separator; 0 and Len(text) + 1 close the text
        sep(k) == IF k = 0 THEN 0
                  ELSE IF k > Len(seps) THEN Len(text) + 1
                  ELSE seps[k]
    IN [k \in 1..(Len(seps) + 1) |-> SubSeq(text, sep(k - 1) + 1, sep(k) - 1)]

\* xpath priceInfo/div/span/text(): the span texts of every div under priceInfo
PriceSpans(divs) ==
    LET F[i \in 0..Len(divs)] == IF i = 0 THEN << >> ELSE F[i-1] \o divs[i].spans
    IN F[Len(divs)]

\* xpath priceInfo/div[@class="unitPrice"]/@data-price
UnitDataPrice(divs) ==
    LET F[i \in 0..Len(divs)] ==
            IF i = 0 THEN << >>
            ELSE IF divs[i].class = "unitPrice" THEN F[i-1] \o divs[i].data_price
            ELSE F[i-1]
    IN F[Len(divs)]

\* The three searches of extract in follow_text
FollowMetrics(follow_text) ==
    [follow_count |-> IF follow_text # << >>
                      THEN Search(FollowGroup, follow_text) ELSE NoneV,
     visit_count |-> IF follow_text # << >>
                     THEN Search(VisitGroup, follow_text) ELSE NoneV,
     publish_time |-> IF follow_text # << >>
                      THEN Search(PublishGroup, follow_text) ELSE NoneV,
     follow_info |-> follow_text]

\* The body of `for li in li_list` up to infos.append: the record of one item,
\* or the exception raised on the way (details is None without an address
\* text node, and categorise(None) raises TypeError)
ExtractItem(li) ==
    LET title == FirstOrNone(li.title)
        location == Join(<<", ">>, li.location)
        total == PriceSpans(li.price)
        total_price == IF total # << >> THEN total[1] \o <<" wan">> ELSE NoneV
        unit == UnitDataPrice(li.price)
        unit_price == IF unit # << >> THEN unit[1] \o <<" yuan">> ELSE NoneV
        jump_link == FirstOrNone(li.href)
        follow == Eval(FollowMetrics, Join(<<" / ">>, StripNonEmpty(li.follow)))
        tags == StripNonEmpty(li.tag)
    IN IF li.address = << >>
       THEN [raised |-> "TypeError"]
       ELSE [raised |-> "",
             rec |-> [title |-> title,
                      location |-> location,
                      details |-> categorise(Split(li.address[1])),
                      price |-> [total_price |-> total_price,
                                 unit_price |-> unit_price],
                      follow_count |-> follow.follow_count,
                      visit_count |-> follow.visit_count,
                      publish_time |-> follow.publish_time,
                      tags |-> tags,
                      follow_info |-> follow.follow_info,
                      link |-> jump_link]]

\* One pass of the for loop of extract: r is what the body did for the item
ExtractStep(prev, r) ==
    IF prev.raised # "" THEN prev
    ELSE IF r.raised # "" THEN [raised |-> r.raised, infos |-> << >>]
    ELSE [raised |-> "", infos |-> Append(prev.infos, r.rec)]

\* The for loop of extract over li_list[1..n]: the records appended so far, or
\* the exception that left the loop
ExtractLoop(lis) ==
    LET F[i \in 0..Len(lis)] ==
            IF i = 0 THEN [raised |-> "", infos |-> << >>]
            ELSE CHOOSE x \in {ExtractStep(prev, r) :
                                 prev \in {F[i-1]}, r \in {ExtractItem(lis[i])}} : TRUE
    IN F[Len(lis)]

\* extract(html_code): the set of outcomes.  result is "None" (returned None),
\* "list" (returned infos) or "raised".  etree.HTML raising gives None; a body
\* for which etree.HTML returns None makes root.xpath raise AttributeError
\* (which of the two an empty body does depends on the lxml build).
extract(body) ==
    IF body.kind = "unparsable" THEN {[result |-> "None", raised |-> "", infos |-> << >>]}
    ELSE IF body.kind = "empty"
    THEN {[result |-> "None", raised |-> "", infos |-> << >>],
          [result |-> "raised", raised |-> "AttributeError", infos |-> << >>]}
    ELSE IF body.lis = << >> THEN {[result |-> "None", raised |-> "", infos |-> << >>]}
    ELSE {IF r.raised # ""
          THEN [result |-> "raised", raised |-> r.raised, infos |-> << >>]
          ELSE [result |-> "list", raised |-> "", infos |-> r.infos] :
             r \in {ExtractLoop(body.lis)}}

-----------------------------------------------------------------------------
\* Results pages: the <li> items a page can hold

Fields == {"title", "location", "address", "total", "unit", "follow", "tag", "href"}

HostA == "https://bj.lianjia.com"
HostB == "https://sh.lianjia.com"

\* Item i of a page with every field present
FullItem(p, i) ==
    [title |-> << <<"title", ToString(p), ToString(i)>> >>,
     location |-> << <<"xiaoqu", ToString(i)>>, <<"district">> >>,
     address |-> << <<"3", "shi", "1", "ting", " | ", "89", "pingmi", " | ",
                      "nan", "bei", " | ", "jingzhuang", " | ", "gao", "ceng",
                      " | ", "2010", "nian", " | ", "banlou">>,
                    <<"second text node">> >>,
     price |-> << [class |-> "totalPrice", data_price |-> << >>,
                   spans |-> << <<"350">> >>],
                  [class |-> "unitPrice", data_price |-> << <<"39326">> >>,
                   spans |-> << <<"39,326 yuan/ping">> >>] >>,
     follow |-> << <<"12 ren guanzhu">>, <<" ">>, <<"7 tian yiqian fabu">> >>,
     tag |-> << <<"VR">>, <<" ">>, <<"emoji", "fangben">> >>,
     href |-> << <<IF i % 2 = 1 THEN HostA ELSE HostB, "/ershoufang/",
                   ToString(p), ToString(i), ".html">> >>]

\* The item with the nodes of the fields in `missing` absent from the markup
Drop(li, missing) ==
    [f \in DOMAIN li |->
        IF f = "price"
        THEN SelectSeq(li.price, LAMBDA d : /\ ~(d.class = "totalPrice" /\ "total" \in missing)
                                            /\ ~(d.class = "unitPrice" /\ "unit" \in missing))
        ELSE IF f \in missing THEN << >> ELSE li[f]]

\* The sets of missing fields tried: at most one field missing, or at most
\* one field present
MissingSets ==
    {x \in SUBSET Fields : Cardinality(x) <= 1 \/ Cardinality(x) >= Cardinality(Fields) - 1}

Items(p, i) == {Drop(FullItem(p, i), m) : m \in MissingSets}

\* The sequences of n items, item i drawn from Items(p, i)
RECURSIVE ItemSeqs(_, _)
ItemSeqs(p, n) ==
    IF n = 0 THEN {<< >>}
    ELSE {Append(s, li) : s \in ItemSeqs(p, n - 1), li \in Items(p, n)}

Pages(max) ==
    {[kind |-> "html", lis |-> s, sig |-> FALSE] :
        s \in UNION {ItemSeqs(1, n) : n \in 0..max}}
    \cup {[kind |-> "unparsable", lis |-> << >>, sig |-> FALSE],
          [kind |-> "empty", lis |-> << >>, sig |-> FALSE]}

-----------------------------------------------------------------------------
\* Values of the variables a run does not use

NoBody == [kind |-> "none", lis |-> << >>, sig |-> FALSE]
NoCall == [fn |-> "", url |-> << >>, attempt |-> 0, gets |-> 0, sleeps |-> 0,
           last_exc |-> "", warmup |-> "none"]
NoLastCall == [fn |-> "", url |-> << >>, result |-> "", error |-> "", gets |-> 0,
               sleeps |-> 0, status |-> 0, text |-> NoBody, warmup |-> "none"]
NoOut == [result |-> "", raised |-> "", infos |-> << >>]
NoneOut == [result |-> "None", raised |-> "", infos |-> << >>]

ExtractIdle == html = NoBody /\ li_idx = 0 /\ out = NoOut
CrawlIdle ==
    /\ page = 0 /\ cycle = 0 /\ pageStatus = << >> /\ cycles = << >>
    /\ pageInfo = << >> /\ csv_is_new = TRUE
    /\ last_error = "" /\ csvBuf = << >> /\ jsonFile = NoFile /\ jsonWrites = 0
DetailIdle ==
    index = 0 /\ rows = << >> /\ prewarmed = {} /\ netLog = << >> /\ outcome = << >>
FetchIdle == call = NoCall /\ lastCall = NoLastCall

-----------------------------------------------------------------------------
\* extract(html_code) run step by step on one page

ExtractInit ==
    /\ pc = "extract"
    /\ html \in Pages(MaxItems)
    /\ li_idx = 0
    /\ out = NoOut
    /\ infos = << >> /\ csvDisk = << >> /\ printed = << >>
    /\ CrawlIdle /\ DetailIdle /\ FetchIdle

\* etree.HTML, the xpath for li_list and the early returns
ExtractParse ==
    /\ pc = "extract"
    /\ \/ /\ html.kind = "html" /\ html.lis # << >>
          /\ pc' = "extract_loop"
          /\ out' = out
       \/ /\ ~(html.kind = "html" /\ html.lis # << >>)
          /\ \E o \in extract(html) : out' = o
          /\ pc' = "extract_done"
    /\ UNCHANGED <<html, li_idx, infos, csvDisk, printed, call, lastCall>>
    /\ UNCHANGED crawlVars /\ UNCHANGED detailVars

\* One pass of `for li in li_list`
ExtractLi ==
    /\ pc = "extract_loop"
    /\ li_idx < Len(html.lis)
    /\ LET r == ExtractItem(html.lis[li_idx + 1])
       IN IF r.raised # ""
          THEN /\ out' = [result |-> "raised", raised |-> r.raised, infos |-> << >>]
               /\ pc' = "extract_done"
               /\ li_idx' = li_idx
          ELSE /\ out' = [out EXCEPT !.infos = Append(@, r.rec)]
               /\ li_idx' = li_idx + 1
               /\ pc' = pc
    /\ UNCHANGED <<html, infos, csvDisk, printed, call, lastCall>>
    /\ UNCHANGED crawlVars /\ UNCHANGED detailVars

\* return infos
ExtractReturn ==
    /\ pc = "extract_loop"
    /\ li_idx = Len(html.lis)
    /\ out' = [out EXCEPT !.result = "list"]
    /\ pc' = "extract_done"
    /\ UNCHANGED <<html, li_idx, infos, csvDisk, printed, call, lastCall>>
    /\ UNCHANGED crawlVars /\ UNCHANGED detailVars

ExtractNext == ExtractParse \/ ExtractLi \/ ExtractReturn

ExtractSpec == ExtractInit /\ [][ExtractNext]_vars

\* The step-by-step run ends with an outcome of the operator extract
ExtractAgrees == pc = "extract_done" => out \in extract(html)

\* The fields whose nodes are absent from an item
Missing(li) ==
    {f \in {"title", "location", "address", "follow", "tag", "href"} : li[f] = << >>}
    \cup {f \in {"total"} : \A i \in 1..Len(li.price) : li.price[i].class # "totalPrice"}
    \cup {f \in {"unit"} : \A i \in 1..Len(li.price) : li.price[i].class # "unitPrice"}

\* A record with the fields in `missing` empty or absent
Blank(rec, missing) ==
    [rec EXCEPT !.title = IF "title" \in missing THEN NoneV ELSE @,
                !.location = IF "location" \in missing THEN << >> ELSE @,
                !.details = IF "address" \in missing THEN EmptyDict ELSE @,
                !.price.total_price = IF "total" \in missing THEN NoneV ELSE @,
                !.price.unit_price = IF "unit" \in missing THEN NoneV ELSE @,
                !.follow_count = IF "follow" \in missing THEN NoneV ELSE @,
                !.visit_count = IF "follow" \in missing THEN NoneV ELSE @,
                !.publish_time = IF "follow" \in missing THEN NoneV ELSE @,
                !.follow_info = IF "follow" \in missing THEN << >> ELSE @,
                !.tags = IF "tag" \in missing THEN << >> ELSE @,
                !.link = IF "href" \in missing THEN NoneV ELSE @]

\* C10: on a results page with n >= 1 items, whichever fields are missing from
\* whichever item, extract raises nothing and returns n records in page order,
\* record i having its missing fields empty/absent and its other fields as
\* extracted from the complete item.
C10_ExtractTolerant ==
    (pc = "extract_done" /\ html.kind = "html" /\ html.lis # << >>) =>
        /\ out.result = "list"
        /\ Len(out.infos) = Len(html.lis)
        /\ \A i \in 1..Len(html.lis) :
              out.infos[i] = Blank(ExtractItem(FullItem(1, i)).rec, Missing(html.lis[i]))

-----------------------------------------------------------------------------
\* The listing crawl (main.py, __main__)

CSV_COLUMNS == <<"title", "location", "configuration", "area", "towards",
                 "decorate", "storey", "period", "categorie", "total_price",
                 "unit_price", "follow_count", "visit_count", "publish_time",
                 "tags", "link">>

CSV_HEADER_CN == [i \in 1..Len(CSV_COLUMNS) |-> <<"header", CSV_COLUMNS[i]>>]

\* Tokens that char.encode('GBK') rejects
NonGBK == {"emoji"}

\* filtrate(data): the text without the characters GBK cannot encode
filtrate(data) == SelectSeq(data, LAMBDA tok : tok \notin NonGBK)

\* info_to_row(info): one CSV row, a text per column
info_to_row(info) ==
    [i \in 1..Len(CSV_COLUMNS) |->
        LET column == CSV_COLUMNS[i]
            value ==
                IF column \in {"title", "location", "follow_count", "visit_count",
                               "publish_time", "link"} THEN info[column]
                ELSE IF column = "tags" THEN Join(<<" | ">>, info.tags)
                ELSE IF column \in {"total_price", "unit_price"} THEN info.price[column]
                ELSE IF column \in DOMAIN info.details THEN info.details[column]
                ELSE NoneV
        IN IF value = NoneV THEN << >> ELSE filtrate(value)]

\* rows = [info_to_row(item) for item in info]
RowsOf(info) == [i \in 1..Len(info) |-> info_to_row(info[i])]

\* json.dump of one value: None is null, a string is quoted
JsonText(v) == IF v = NoneV THEN <<"null">> ELSE <<"\"">> \o v \o <<"\"">>

\* json.dump(obj=infos): one JSON object per record
JsonObject(rec) ==
    [title |-> JsonText(rec.title),
     location |-> JsonText(rec.location),
     details |-> [k \in DOMAIN rec.details |-> JsonText(rec.details[k])],
     price |-> [total_price |-> JsonText(rec.price.total_price),
                unit_price |-> JsonText(rec.price.unit_price)],
     follow_count |-> JsonText(rec.follow_count),
     visit_count |-> JsonText(rec.visit_count),
     publish_time |-> JsonText(rec.publish_time),
     tags |-> [i \in 1..Len(rec.tags) |-> JsonText(rec.tags[i])],
     follow_info |-> JsonText(rec.follow_info),
     link |-> JsonText(rec.link)]

write_json_dataset(list) == [i \in 1..Len(list) |-> JsonObject(list[i])]

\* The page range: left = 1, right = MaxPages
left == 1
right == MaxPages

\* What the site can answer for page p: an empty body, the verification
\* page, a page without listings, and pages with one or two listings
CrawlBodies(p) ==
    {[kind |-> "empty", lis |-> << >>, sig |-> FALSE],
     [kind |-> "html", lis |-> << >>, sig |-> TRUE],
     [kind |-> "html", lis |-> << >>, sig |-> FALSE],
     [kind |-> "html", lis |-> <<FullItem(p, 1)>>, sig |-> FALSE],
     [kind |-> "html", lis |-> <<FullItem(p, 1), Drop(FullItem(p, 2), {"tag"})>>,
      sig |-> FALSE],
     [kind |-> "html", lis |-> <<Drop(FullItem(p, 1), {"address"})>>, sig |-> FALSE]}

\* Status codes the site can answer with
Statuses == {200, 202, 404, 503}

\* A CSV file left by an earlier run of the same city and range
OldCsv == <<CSV_HEADER_CN, info_to_row(ExtractItem(FullItem(1, 1)).rec)>>

\* response.raise_for_status() raises for 4xx and 5xx
RaiseForStatus(status) == status >= 400

\* get_html: `if attempt + 1 == retries: raise`
GetHtmlLastAttempt(attempt) == attempt + 1 = GetHtmlRetries

\* for attempt in range(5): another cycle follows cycle number `attempt`
MoreCyclesOffByOne(attempt) == attempt + 1 < PageCycles + 1
MoreCycles(attempt) == attempt + 1 < PageCycles

\* The page loop: `if info: break`
InfoTruthy(o) == o.result = "list" /\ o.infos # << >>

\* csv_file.flush(): the buffered rows reach the file
FlushNothing(disk, buf) == disk
Flush(disk, buf) == disk \o buf

\* `if infos:` at the end of the run
ShouldSaveAlways(acc) == TRUE
ShouldSave(acc) == acc # << >>

\* json.load of one value written by json.dump
JsonParse(t) == IF t = <<"null">> THEN NoneV ELSE SubSeq(t, 2, Len(t) - 1)

NewCall(fn, url) == [NoCall EXCEPT !.fn = fn, !.url = url]

PageUrl(p) == <<"https://bj.lianjia.com", "/ershoufang/pg", ToString(p), "/">>

CrawlInit ==
    /\ pc = "next_page"
    /\ page = left - 1
    /\ cycle = 0
    /\ csv_is_new \in BOOLEAN
    /\ csvDisk = IF csv_is_new THEN << >> ELSE OldCsv
    /\ csvBuf = IF csv_is_new THEN <<CSV_HEADER_CN>> ELSE << >>
    /\ infos = << >>
    /\ pageStatus = [p \in left..right |-> "pending"]
    /\ cycles = << >>
    /\ pageInfo = [p \in left..right |-> << >>]
    /\ last_error = ""
    /\ out = NoneOut
    /\ jsonFile = NoFile /\ jsonWrites = 0
    /\ printed = << >>
    /\ html = NoBody /\ li_idx = 0
    /\ DetailIdle /\ FetchIdle

\* for ... in enumerate(page_bar): the next page, up to the first get_html call
StartPage ==
    /\ pc = "next_page"
    /\ page < right
    /\ page' = page + 1
    /\ cycle' = 0
    /\ out' = NoneOut
    /\ last_error' = ""
    /\ call' = NewCall("get_html", PageUrl(page + 1))
    /\ cycles' = << >>
    /\ pc' = "get_html"
    /\ UNCHANGED <<html, li_idx, lastCall, pageStatus, pageInfo, csv_is_new,
                   infos, csvBuf, csvDisk, jsonFile, jsonWrites, printed>>
    /\ UNCHANGED detailVars

\* The end of a cycle that did not break: random_delay, then the next cycle,
\* or after the last one the `if not info` branch and the next page
CycleFailed(err) ==
    /\ last_error' = IF err # "" THEN err ELSE last_error
    /\ cycles' = Append(cycles, "failed")
    /\ lastCall' = NoLastCall
    /\ IF MoreCycles(cycle)
       THEN /\ cycle' = cycle + 1
            /\ call' = NewCall("get_html", PageUrl(page))
            /\ pc' = "get_html"
            /\ UNCHANGED <<pageStatus, printed>>
       ELSE /\ cycle' = cycle + 1
            /\ call' = NoCall
            /\ pageStatus' = [pageStatus EXCEPT ![page] = "page_failed"]
            /\ printed' = Append(printed, <<"page failed after retries">>)
            /\ pc' = "next_page"
    /\ UNCHANGED <<page, pageInfo, csv_is_new, infos, csvBuf, csvDisk, jsonFile,
                   jsonWrites, html, li_idx>>
    /\ UNCHANGED detailVars

\* The fetch call ends: what it hands to its caller
Ended(result, error, status, text, slept) ==
    [fn |-> call.fn, url |-> call.url, result |-> result, error |-> error,
     gets |-> call.gets + 1, sleeps |-> call.sleeps + slept, status |-> status,
     text |-> text, warmup |-> call.warmup]

\* get_html: an attempt that raises before the last one; sleep and retry
GetHtmlRetry ==
    /\ pc = "get_html"
    /\ ~GetHtmlLastAttempt(call.attempt)
    /\ call' = [call EXCEPT !.attempt = @ + 1, !.gets = @ + 1, !.sleeps = @ + 1]
    /\ UNCHANGED <<pc, html, li_idx, out, page, cycle, lastCall, pageStatus, cycles,
                   pageInfo, csv_is_new, last_error, infos, csvBuf, csvDisk,
                   jsonFile, jsonWrites, printed>>
    /\ UNCHANGED detailVars

\* get_html: the last attempt raises (session.get, or raise_for_status on a
\* 4xx/5xx answer) and the exception leaves get_html
GetHtmlRaise ==
    /\ pc = "get_html"
    /\ GetHtmlLastAttempt(call.attempt)
    /\ \/ lastCall' = Ended("raised", "ConnectionError", 0, NoBody, 0)
       \/ \E status \in Statuses :
             /\ RaiseForStatus(status)
             /\ lastCall' = Ended("raised", "HTTPError", status, NoBody, 0)
    /\ pc' = "cycle_except"
    /\ UNCHANGED <<html, li_idx, out, page, cycle, call, pageStatus, cycles,
                   pageInfo, csv_is_new, last_error, infos, csvBuf, csvDisk,
                   jsonFile, jsonWrites, printed>>
    /\ UNCHANGED detailVars

\* get_html: raise_for_status passes and response.text is returned
GetHtmlReturn ==
    /\ pc = "get_html"
    /\ \E status \in Statuses, body \in CrawlBodies(page) :
          /\ ~RaiseForStatus(status)
          /\ lastCall' = Ended("returned", "", status, body, 0)
    /\ pc' = "cycle_extract"
    /\ UNCHANGED <<html, li_idx, out, page, cycle, call, pageStatus, cycles,
                   pageInfo, csv_is_new, last_error, infos, csvBuf, csvDisk,
                   jsonFile, jsonWrites, printed>>
    /\ UNCHANGED detailVars

\* The page loop catches the exception of get_html
CycleExcept ==
    /\ pc = "cycle_except"
    /\ out' = out
    /\ CycleFailed(lastCall.error)

\* extract(html_code) gives nothing, or raises and the page loop catches it
CycleNoInfo ==
    /\ pc = "cycle_extract"
    /\ \E o \in extract(lastCall.text) :
          /\ ~InfoTruthy(o)
          /\ out' = IF o.result = "raised" THEN out ELSE o
          /\ CycleFailed(o.raised)

\* extract(html_code) gives records: break, write the rows, flush, extend the
\* accumulator
CycleSucceeds ==
    /\ pc = "cycle_extract"
    /\ \E o \in extract(lastCall.text) :
          /\ InfoTruthy(o)
          /\ out' = o
          /\ csvDisk' = Flush(csvDisk, csvBuf \o RowsOf(o.infos))
          /\ csvBuf' = << >>
          /\ infos' = infos \o o.infos
          /\ pageInfo' = [pageInfo EXCEPT ![page] = o.infos]
    /\ cycles' = Append(cycles, "extracted")
    /\ pageStatus' = [pageStatus EXCEPT ![page] = "extracted"]
    /\ call' = NoCall
    /\ lastCall' = NoLastCall
    /\ pc' = "next_page"
    /\ UNCHANGED <<page, cycle, csv_is_new, last_error, jsonFile, jsonWrites,
                   printed, html, li_idx>>
    /\ UNCHANGED detailVars

\* After the last page: the with block closes the CSV file, then the JSON
\* dataset is written if infos is non-empty, else the warning is printed
Finish ==
    /\ pc = "next_page"
    /\ page = right
    /\ csvDisk' = Flush(csvDisk, csvBuf)
    /\ csvBuf' = << >>
    /\ IF ShouldSave(infos)
       THEN /\ jsonFile' = write_json_dataset(infos)
            /\ jsonWrites' = jsonWrites + 1
            /\ printed' = printed \o <<<<"JSON saved">>, <<"crawl finished">>>>
       ELSE /\ printed' = Append(printed, <<"nothing fetched">>)
            /\ UNCHANGED <<jsonFile, jsonWrites>>
    /\ pc' = "done"
    /\ UNCHANGED <<page, cycle, call, lastCall, pageStatus, cycles, pageInfo,
                   csv_is_new, last_error, infos, out, html, li_idx>>
    /\ UNCHANGED detailVars

Next == StartPage \/ GetHtmlRetry \/ GetHtmlRaise \/ GetHtmlReturn \/ CycleExcept
        \/ CycleNoInfo \/ CycleSucceeds \/ Finish

Spec == CrawlInit /\ [][Next]_vars

\* The scheduling of the run: a sequential program whose requests time out
\* and whose sleeps end, so an enabled step is eventually taken
FairSpec == Spec /\ WF_vars(Next)

\* The records of the pages left..p, in page order
RECURSIVE RecordsUpTo(_)
RecordsUpTo(p) == IF p < left THEN << >> ELSE RecordsUpTo(p - 1) \o pageInfo[p]

Last(s) == s[Len(s)]

C4_CyclesInv ==
    /\ Len(cycles) <= 5
    /\ \A i \in 1..(Len(cycles) - 1) : cycles[i] = "failed"
    /\ \A p \in left..right :
          /\ p < page => pageStatus[p] \in {"extracted", "page_failed"}
          /\ p > page => pageStatus[p] = "pending"
          /\ pageStatus[p] = "extracted" => pageInfo[p] # << >>
    /\ page >= left =>
          /\ pageStatus[page] = "extracted" <=>
                (cycles # << >> /\ Last(cycles) = "extracted")
          /\ pageStatus[page] = "page_failed" <=>
                (Len(cycles) = 5 /\ Last(cycles) = "failed")
          /\ pageStatus[page] = "pending" <=>
                pc \in {"get_html", "cycle_except", "cycle_extract"}
          /\ pc = "get_html" => ~(out.result = "list" /\ out.infos # << >>)
    /\ pc = "done" => \A p \in left..right : pageStatus[p] # "pending"

\* C4: every page of the range gets at most 5 (fetch, extract) cycles, the
\* cycles of a page stop at the first one that yields a body and a non-empty
\* record list, 5 failed cycles mark the page failed, and whatever fails on a
\* page the run goes on to every later page and ends.
C4_PageLoop == [](C4_CyclesInv) /\ <>(pc = "done")

\* A page failed after 5 cycles and a later page is being fetched
C4_Witness ==
    /\ page = right /\ pc = "cycle_extract" /\ Len(cycles) = 4
    /\ pageStatus[left] = "page_failed"
    /\ pageStatus[left + 1] = "extracted"

\* C5: while page p is being fetched, the rows of every earlier successful
\* page are on disk (written and flushed) in ascending page order, the
\* accumulator holds exactly the records of those pages in that order, and
\* failed pages contribute nothing.
C5_IncrementalPersistence ==
    (pc \in {"get_html", "cycle_except", "cycle_extract"}) =>
        LET done == RecordsUpTo(page - 1)
        IN /\ infos = done
           /\ \A p \in left..(page - 1) :
                 pageStatus[p] = "page_failed" => pageInfo[p] = << >>
           /\ done # << >> =>
                 /\ csvBuf = << >>
                 /\ csvDisk = (IF csv_is_new THEN <<CSV_HEADER_CN>> ELSE OldCsv)
                                \o RowsOf(done)

\* The last page is being fetched after a successful, a failed or two
\* successful earlier pages
C5_Witness ==
    /\ pc = "get_html" /\ page = right /\ page >= 3
    /\ pageStatus[left] = "extracted" /\ Len(pageInfo[left]) = 2
    /\ pageStatus[left + 1] = "extracted"
    /\ \E p \in left..(page - 1) : Len(pageInfo[p]) = 1

\* C6: the JSON dataset is written at most once, only when the run is over
\* and every page has been processed; at the end of the run it has been
\* written exactly when the accumulator is non-empty and then holds every
\* accumulated record; a run without any listing writes no JSON dataset and
\* ends with the nothing-fetched warning.
C6_JsonOnce ==
    /\ jsonWrites <= 1
    /\ jsonWrites = 1 => pc = "done"
    /\ pc # "done" => jsonFile = NoFile
    /\ pc = "done" =>
          /\ \A p \in left..right : pageStatus[p] # "pending"
          /\ infos = RecordsUpTo(right)
          /\ (jsonWrites = 1) <=> (infos # << >>)
          /\ infos # << >> =>
                /\ Len(jsonFile) = Len(infos)
                /\ \A i \in 1..Len(infos) :
                      /\ JsonParse(jsonFile[i].title) = infos[i].title
                      /\ JsonParse(jsonFile[i].link) = infos[i].link
                      /\ JsonParse(jsonFile[i].price.total_price)
                            = infos[i].price.total_price
                      /\ DOMAIN jsonFile[i].details = DOMAIN infos[i].details
                      /\ Len(jsonFile[i].tags) = Len(infos[i].tags)
          /\ infos = << >> =>
                /\ jsonFile = NoFile
                /\ Last(printed) = <<"nothing fetched">>

\* A run that ends with records of two pages in the JSON dataset
C6_Witness ==
    /\ pc = "done" /\ jsonWrites = 1 /\ Len(jsonFile) >= 3
    /\ \E p \in left..right : pageStatus[p] = "page_failed"

\* C1: a fetch hands a body to its caller only if the response of that attempt
\* had status 200, a non-empty body and no block signature in the body.
C1_ReturnsOnlyGood ==
    lastCall.result = "returned" =>
        /\ lastCall.status = 200
        /\ lastCall.text.kind # "empty"
        /\ ~lastCall.text.sig

-----------------------------------------------------------------------------
\* The detail merge run (detail_scraper.py)

STATUS == <<"jiexizhuangtai">>

BASE_COLUMNS ==
    << <<"biaoti">>, <<"dizhi">>, <<"huxing">>, <<"mianji">>, <<"chaoxiang">>,
       <<"zhuangxiuqingkuang">>, <<"cengshu">>, <<"jianzaoshijian">>, <<"louxing">>,
       <<"zongjia">>, <<"meipingmidanjia">>, <<"guanzhurenshu">>, <<"daikancishu">>,
       <<"fabushijian">>, <<"biaoqian">>, <<"xiangqinglianjie">> >>

DETAIL_COLUMNS ==
    << <<"fangyuanbiaoqian">>, <<"hexinmaidian">>, <<"xiaoqujieshao">>,
       <<"zhoubianpeitao">>, <<"jiaotongchuxing">>, <<"shuifeijiexi">>,
       <<"quanshudiya">>, <<"shangcijiaoyi">>, <<"guapaishijian">>,
       <<"jiaoyiquanshu">>, <<"fangwuyongtu">>, <<"fangwunianxian">>,
       <<"chanquansuoshu">>, <<"diyaxinxi">>, <<"jiaoyishuxing">>,
       <<"huxingfenjian">> >>

\* `x or ''`
OrEmpty(v) == IF v = NoneV THEN << >> ELSE v

\* dict.get(key, '')
DictGet(d, key) == IF key \in DOMAIN d THEN d[key] ELSE << >>

\* d[key] = value
Put(d, key, value) ==
    [k \in DOMAIN d \cup {key} |-> IF k = key THEN value ELSE d[k]]

\* text.strip(): the text without its leading and trailing whitespace
StripEnds(t) ==
    LET idx == {i \in 1..Len(t) : t[i] # " "}
    IN IF idx = {} THEN << >>
       ELSE SubSeq(t, CHOOSE i \in idx : \A j \in idx : i <= j,
                      CHOOSE i \in idx : \A j \in idx : i >= j)

\* build_base_row(info): the base columns of one input record
build_base_row(info) ==
    LET details == info.details
        price == info.price
    IN (<<"biaoti">> :> OrEmpty(info.title))
       @@ (<<"dizhi">> :> OrEmpty(info.location))
       @@ (<<"huxing">> :> OrEmpty(DictGet(details, "configuration")))
       @@ (<<"mianji">> :> OrEmpty(DictGet(details, "area")))
       @@ (<<"chaoxiang">> :> OrEmpty(DictGet(details, "towards")))
       @@ (<<"zhuangxiuqingkuang">> :> OrEmpty(DictGet(details, "decorate")))
       @@ (<<"cengshu">> :> OrEmpty(DictGet(details, "storey")))
       @@ (<<"jianzaoshijian">> :> OrEmpty(DictGet(details, "period")))
       @@ (<<"louxing">> :> OrEmpty(DictGet(details, "categorie")))
       @@ (<<"zongjia">> :> OrEmpty(price.total_price))
       @@ (<<"meipingmidanjia">> :> OrEmpty(price.unit_price))
       @@ (<<"guanzhurenshu">> :> OrEmpty(info.follow_count))
       @@ (<<"daikancishu">> :> OrEmpty(info.visit_count))
       @@ (<<"fabushijian">> :> OrEmpty(info.publish_time))
       @@ (<<"biaoqian">> :> Join(<<" | ">>, info.tags))
       @@ (<<"xiangqinglianjie">> :> OrEmpty(info.link))

\* [x.strip() for x in list if x.strip()]
StrippedNonEmpty(list) ==
    SelectSeq([i \in 1..Len(list) |-> StripEnds(list[i])], LAMBDA t : t # << >>)

\* parse_detail: detail_data after the loop over the feature sections
SectionData(data, sections) ==
    LET F[i \in 0..Len(sections)] ==
            IF i = 0 THEN data
            ELSE LET title == StripEnds(Join(<< >>, sections[i].name))
                     content == StripEnds(Join(<< >>, sections[i].content))
                 IN IF title # << >> /\ content # << >>
                    THEN Put(F[i-1], title, content)
                    ELSE F[i-1]
    IN F[Len(sections)]

\* parse_detail: detail_data after the loop over the transaction items
TransactionData(data, items) ==
    LET F[i \in 0..Len(items)] ==
            IF i = 0 THEN data
            ELSE LET label == StripEnds(Join(<< >>, items[i].label))
                     value == StripEnds(Join(<< >>, items[i].value))
                 IN IF label # << >> /\ value # << >>
                    THEN Put(F[i-1], label, value)
                    ELSE F[i-1]
    IN F[Len(items)]

\* parse_detail: transaction_pairs, "label:value" for every complete item
TransactionPairs(items) ==
    LET pair(i) == [label |-> StripEnds(Join(<< >>, items[i].label)),
                    value |-> StripEnds(Join(<< >>, items[i].value))]
        all == [i \in 1..Len(items) |-> pair(i)]
        kept == SelectSeq(all, LAMBDA q : q.label # << >> /\ q.value # << >>)
    IN [i \in 1..Len(kept) |-> kept[i].label \o <<":">> \o kept[i].value]

\* parse_detail: layout_items, the non-empty columns of every layout row
LayoutItems(layout_rows) ==
    LET cols(i) == StrippedNonEmpty([c \in 1..Len(layout_rows[i]) |->
                                        Join(<< >>, layout_rows[i][c])])
        all == [i \in 1..Len(layout_rows) |-> cols(i)]
        kept == SelectSeq(all, LAMBDA c : c # << >>)
    IN [i \in 1..Len(kept) |-> Join(<<" / ">>, kept[i])]

\* parse_detail(html), html being the text: the exception it raises (etree.HTML rejects a str that
\* carries an XML encoding declaration with ValueError), or the dict it returns
parse_detail(text) ==
    IF text.kind = "xmldecl" THEN [raised |-> "ValueError", data |-> EmptyDict]
    ELSE IF text.kind = "blank" THEN [raised |-> "", data |-> EmptyDict]
    ELSE IF text.login
    THEN [raised |-> "", data |-> STATUS :> <<"login_required">>]
    ELSE LET tags == StrippedNonEmpty(text.tags)
             d1 == IF tags # << >>
                   THEN Put(EmptyDict, <<"fangyuanbiaoqian">>, Join(<<" | ">>, tags))
                   ELSE EmptyDict
             d2 == SectionData(d1, text.sections)
             d3 == TransactionData(d2, text.transactions)
             pairs == TransactionPairs(text.transactions)
             d4 == IF pairs # << >>
                   THEN Put(d3, <<"jiaoyishuxing">>, Join(<<" | ">>, pairs))
                   ELSE d3
             layout_items == LayoutItems(text.layout)
             d5 == IF layout_items # << >>
                   THEN Put(d4, <<"huxingfenjian">>, Join(<<" ; ">>, layout_items))
                   ELSE d4
         IN [raised |-> "", data |-> d5]

\* merge_detail(row, detail_data): the row after the call
merge_detail(row, detail_data) ==
    LET r0 == IF STATUS \in DOMAIN detail_data
              THEN Put(row, STATUS, detail_data[STATUS])
              ELSE row
    IN [k \in DOMAIN r0 \cup Range(DETAIL_COLUMNS) |->
           IF k \in Range(DETAIL_COLUMNS)
           THEN filtrate(StripEnds(DictGet(detail_data, k)))
           ELSE r0[k]]

\* headers = list(BASE_COLUMNS + DETAIL_COLUMNS) + [status column]
Headers == BASE_COLUMNS \o DETAIL_COLUMNS \o <<STATUS>>

\* write_csv(rows, output_path): the file opened with 'w', the header line and
\* one line per row, a missing column written as '' and every value filtered
write_csv(list) ==
    <<Headers>> \o
    [i \in 1..Len(list) |->
        [c \in 1..Len(Headers) |-> filtrate(DictGet(list[i], Headers[c]))]]

\* The detail pages the site can answer with
NormalPage ==
    [kind |-> "html", sig |-> FALSE, login |-> FALSE,
     tags |-> << <<" ", "manwu", " ">>, <<" ">>, <<"emoji", "ditie">> >>,
     sections |-> << [name |-> << <<" ">>, <<"hexinmaidian">> >>,
                      content |-> << <<"nanbei", " ", "tongtou">>, <<" ">> >>],
                     [name |-> << <<"xiaoqujieshao">> >>, content |-> << <<" ">> >>],
                     [name |-> << <<"zhuangxiumiaoshu">> >>,
                      content |-> << <<"jingzhuang">> >>] >>,
     transactions |-> << [label |-> << <<"guapaishijian">> >>,
                          value |-> << <<"2024-01-02">>, <<" ">> >>],
                         [label |-> << <<"shangcijiaoyi">> >>, value |-> << >>],
                         [label |-> << <<"fangwuyongtu">> >>,
                          value |-> << <<"putongzhuzhai">> >>] >>,
     layout |-> << << << <<"keting">> >>, << <<"20">>, <<"pingmi">> >>, << <<" ">> >> >>,
                   << << <<" ">> >> >> >>]

\* The login-gated variant: the login prompt next to the usual markup
LoginPage == [NormalPage EXCEPT !.login = TRUE]

\* A page with a feature section whose title is the name of the status column
StatusTitledPage ==
    [NormalPage EXCEPT !.sections =
        Append(@, [name |-> <<STATUS>>, content |-> << <<"yishenhe">> >>])]

\* The verification page: a body with a block signature
BlockedPage == [NormalPage EXCEPT !.sig = TRUE, !.sections = << >>]

EmptyText == [NormalPage EXCEPT !.kind = "empty"]

DetailPages ==
    {NormalPage, LoginPage, StatusTitledPage,
     [NormalPage EXCEPT !.kind = "blank"], [NormalPage EXCEPT !.kind = "xmldecl"]}

\* Input record i as main.py leaves it in the JSON dataset, with the given link
DetailRecord(i, link) == [ExtractItem(FullItem(1, i)).rec EXCEPT !.link = link]

\* The links of record i: none (null in the JSON), or a detail page on a host
\* (the first record on either city host, the later ones on the first host)
LinkChoices(i) ==
    {NoneV, <<HostA, "/ershoufang/", ToString(i), ".html">>}
    \cup (IF i = 1 THEN {<<HostB, "/ershoufang/", ToString(i), ".html">>} ELSE {})

\* The JSON datasets loaded by load_infos: n records
RECURSIVE DetailInputs(_)
DetailInputs(n) ==
    IF n = 0 THEN {<< >>}
    ELSE {Append(list, DetailRecord(n, link)) :
             list \in DetailInputs(n - 1), link \in LinkChoices(n)}

\* --limit: absent or 0 (both falsy), or a positive number
Limits == {0, 1}

\* if args.limit: infos = infos[: args.limit]
ApplyLimit(list, limit) ==
    IF limit # 0 THEN SubSeq(list, 1, Min(limit, Len(list))) ELSE list

\* urlparse(url): scheme://netloc is the first token of a URL
Domain(url) == url[1]

\* referer = f"{domain}/ershoufang/"
Referer(url) == <<Domain(url), "/ershoufang/">>

\* request_detail: `if not getattr(request_detail, "_prewarmed", None)`; an
\* empty set is falsy and is replaced by a new empty set
PrewarmedAttr(warmed) == IF warmed = {} THEN {} ELSE warmed

\* request_detail: `if domain not in request_detail._prewarmed`
ShouldWarmAlways(domain, warmed) == TRUE
ShouldWarm(domain, warmed) == domain \notin PrewarmedAttr(warmed)

\* Status codes a detail request can be answered with
DetailStatuses == {200, 403}

\* response.text of a detail request
DetailTexts == DetailPages \cup {BlockedPage, EmptyText}

\* request_detail: `if response.status_code == 200 and response.text`
GoodResponse(status, text) == status = 200 /\ text.kind # "empty"

\* request_detail: one of the block signatures is in the text
BlockSignature(text) == text.sig

\* main: `except Exception` catches every exception that request_detail,
\* parse_detail and merge_detail raise
CaughtOnlyRequestException(exc) == exc = "ConnectionError"
Caught(exc) == exc \in {"ConnectionError", "RuntimeError", "ValueError"}

\* str(exc) of the exceptions of a detail fetch
Message(exc, blocked, url) ==
    IF exc = "ConnectionError" THEN <<"Connection aborted.">>
    ELSE IF exc = "ValueError"
    THEN <<"Unicode strings with encoding declaration are not supported.">>
    ELSE IF blocked THEN <<"Blocked by anti-bot verification">>
    ELSE <<"Failed to fetch detail page after ", ToString(DetailRetries),
           " attempts: ">> \o url

\* f"failed: {exc}"[:120]
FailedStatus(msg) ==
    LET t == <<"failed: ">> \o msg IN SubSeq(t, 1, Min(StatusLimit, Len(t)))

DetailInit ==
    /\ pc = "next_record"
    /\ \E list \in DetailInputs(MaxRecords), limit \in Limits :
          infos = ApplyLimit(list, limit)
    /\ index = 0 /\ rows = << >> /\ prewarmed = {} /\ netLog = << >>
    /\ outcome = << >>
    /\ csvDisk = << >> /\ printed = << >>
    /\ CrawlIdle /\ ExtractIdle /\ FetchIdle

LINK == <<"xiangqinglianjie">>

\* What main did with one input record
Outcome(result, error, last) ==
    [result |-> result, error |-> error, gets |-> last.gets,
     sleeps |-> last.sleeps, warmup |-> last.warmup, text |-> last.text]

\* for index, info in enumerate(infos, start=1): a record without a link;
\* the base row is appended as it is
SkipRecord ==
    /\ pc = "next_record"
    /\ index < Len(infos)
    /\ LET row == build_base_row(infos[index + 1])
       IN /\ row[LINK] = << >>
          /\ rows' = Append(rows, row)
    /\ printed' = Append(printed, <<"Skipping entry without detail link">>)
    /\ outcome' = Append(outcome, Outcome("skipped", "", NoLastCall))
    /\ index' = index + 1
    /\ UNCHANGED <<pc, call, lastCall, infos, csvDisk, prewarmed, netLog>>
    /\ UNCHANGED crawlVars /\ UNCHANGED extractVars

\* A record with a link: request_detail is called; it warms the host up if
\* the host is not in _prewarmed (a RequestException of the warm-up GET is
\* passed over) and adds the host to _prewarmed
BeginRequest ==
    /\ pc = "next_record"
    /\ index < Len(infos)
    /\ LET url == build_base_row(infos[index + 1])[LINK]
       IN /\ url # << >>
          /\ IF ShouldWarm(Domain(url), prewarmed)
             THEN /\ \E exc \in BOOLEAN :
                        /\ netLog' = Append(netLog, [kind |-> "warmup",
                                                     url |-> Referer(url),
                                                     exc |-> exc])
                        /\ call' = [NewCall("request_detail", url) EXCEPT
                                       !.warmup = IF exc THEN "failed" ELSE "ok"]
                  /\ prewarmed' = PrewarmedAttr(prewarmed) \cup {Domain(url)}
             ELSE /\ netLog' = netLog
                  /\ call' = NewCall("request_detail", url)
                  /\ prewarmed' = PrewarmedAttr(prewarmed)
    /\ pc' = "request_detail"
    /\ UNCHANGED <<lastCall, infos, csvDisk, printed, index, rows, outcome>>
    /\ UNCHANGED crawlVars /\ UNCHANGED extractVars

\* for attempt in range(retries)
MoreAttempts(attempt) == attempt < DetailRetries

\* The GET of the running request_detail call, as the network log records it
DetailGet == [kind |-> "get", url |-> call.url]

\* request_detail: session.get raises RequestException (kept in last_exc), or
\* the answer is not a 200 with a body; sleep, then the next attempt
DetailAttemptFails ==
    /\ pc = "request_detail"
    /\ MoreAttempts(call.attempt)
    /\ \/ /\ call' = [call EXCEPT !.attempt = @ + 1, !.gets = @ + 1,
                                  !.sleeps = @ + 1, !.last_exc = "ConnectionError"]
          /\ netLog' = Append(netLog, DetailGet)
       \/ /\ \E status \in DetailStatuses, text \in DetailTexts :
                ~GoodResponse(status, text)
          /\ call' = [call EXCEPT !.attempt = @ + 1, !.gets = @ + 1,
                                  !.sleeps = @ + 1]
          /\ netLog' = Append(netLog, DetailGet)
    /\ UNCHANGED <<pc, lastCall, infos, csvDisk, printed, index, rows, prewarmed,
                   outcome>>
    /\ UNCHANGED crawlVars /\ UNCHANGED extractVars

\* request_detail: a 200 answer whose body carries a block signature; the
\* RuntimeError is not a RequestException and leaves request_detail
DetailBlocked ==
    /\ pc = "request_detail"
    /\ MoreAttempts(call.attempt)
    /\ \E status \in DetailStatuses, text \in DetailTexts :
          /\ GoodResponse(status, text)
          /\ BlockSignature(text)
          /\ lastCall' = Ended("raised", "RuntimeError", status, text, 0)
    /\ netLog' = Append(netLog, DetailGet)
    /\ call' = NoCall
    /\ pc' = "record_except"
    /\ UNCHANGED <<infos, csvDisk, printed, index, rows, prewarmed, outcome>>
    /\ UNCHANGED crawlVars /\ UNCHANGED extractVars

\* request_detail: a 200 answer with a body without block signature: return text
DetailReturn ==
    /\ pc = "request_detail"
    /\ MoreAttempts(call.attempt)
    /\ \E status \in DetailStatuses, text \in DetailTexts :
          /\ GoodResponse(status, text)
          /\ ~BlockSignature(text)
          /\ lastCall' = Ended("returned", "", status, text, 0)
    /\ netLog' = Append(netLog, DetailGet)
    /\ call' = NoCall
    /\ pc' = "record_parse"
    /\ UNCHANGED <<infos, csvDisk, printed, index, rows, prewarmed, outcome>>
    /\ UNCHANGED crawlVars /\ UNCHANGED extractVars

\* request_detail: the attempts are used up: raise last_exc, or RuntimeError
\* when no attempt raised
DetailExhausted ==
    /\ pc = "request_detail"
    /\ ~MoreAttempts(call.attempt)
    /\ lastCall' = [fn |-> call.fn, url |-> call.url, result |-> "raised",
                    error |-> IF call.last_exc # "" THEN call.last_exc
                              ELSE "RuntimeError",
                    gets |-> call.gets, sleeps |-> call.sleeps, status |-> 0,
                    text |-> NoBody, warmup |-> call.warmup]
    /\ call' = NoCall
    /\ pc' = "record_except"
    /\ UNCHANGED <<infos, csvDisk, printed, index, rows, prewarmed, netLog,
                   outcome>>
    /\ UNCHANGED crawlVars /\ UNCHANGED extractVars

\* The end of one pass of the loop of main for a record with a link: the row
\* is appended and the line "[index/n] url -> status" printed
RecordDone(row, result, error, status) ==
    /\ rows' = Append(rows, row)
    /\ outcome' = Append(outcome, Outcome(result, error, lastCall))
    /\ printed' = Append(printed, lastCall.url \o <<" -> ">> \o status)
    /\ index' = index + 1
    /\ lastCall' = NoLastCall
    /\ pc' = "next_record"
    /\ UNCHANGED <<call, infos, csvDisk, prewarmed, netLog>>
    /\ UNCHANGED crawlVars /\ UNCHANGED extractVars

\* parse_detail and merge_detail return: status = 'ok' is set for the printed
\* line only; the row holds what merge_detail put there
RecordMerged ==
    /\ pc = "record_parse"
    /\ LET parsed == parse_detail(lastCall.text)
       IN /\ parsed.raised = ""
          /\ RecordDone(merge_detail(build_base_row(infos[index + 1]), parsed.data),
                        "merged", "", <<"ok">>)

\* The except clause of main for the exception exc of request_detail or
\* parse_detail: the status column of the base row is set to "failed: ..."
\* (an exception that the clause does not catch ends the run)
Except(exc, blocked) ==
    IF Caught(exc)
    THEN LET msg == Message(exc, blocked, lastCall.url)
         IN RecordDone(Put(build_base_row(infos[index + 1]), STATUS, FailedStatus(msg)),
                       "failed", exc,
                       <<"failed (">> \o msg \o <<")">>)
    ELSE /\ pc' = "aborted"
         /\ UNCHANGED <<call, lastCall, infos, csvDisk, printed, index, rows,
                        prewarmed, netLog, outcome>>
         /\ UNCHANGED crawlVars /\ UNCHANGED extractVars

\* request_detail raised
RecordFetchFailed ==
    /\ pc = "record_except"
    /\ Except(lastCall.error, lastCall.text.sig)

\* parse_detail raised
RecordParseFailed ==
    /\ pc = "record_parse"
    /\ parse_detail(lastCall.text).raised # ""
    /\ Except(parse_detail(lastCall.text).raised, FALSE)

\* After the loop: write_csv(rows, output_path)
DetailFinish ==
    /\ pc = "next_record"
    /\ index = Len(infos)
    /\ csvDisk' = write_csv(rows)
    /\ printed' = Append(printed, <<"Detail table saved">>)
    /\ pc' = "done"
    /\ UNCHANGED <<call, lastCall, infos, index, rows, prewarmed, netLog, outcome>>
    /\ UNCHANGED crawlVars /\ UNCHANGED extractVars

DetailNext ==
    SkipRecord \/ BeginRequest \/ DetailAttemptFails \/ DetailBlocked
    \/ DetailReturn \/ DetailExhausted \/ RecordMerged \/ RecordFetchFailed
    \/ RecordParseFailed \/ DetailFinish

DetailSpec == DetailInit /\ [][DetailNext]_vars

\* The status column of a line of the output CSV
StatusOf(line) == line[Len(Headers)]

\* The retry bound of a fetch function
RetryBound(fn) == IF fn = "get_html" THEN GetHtmlRetries ELSE DetailRetries

\* The positions of the warm-up GETs in the network log
Warmups == {i \in 1..Len(netLog) : netLog[i].kind = "warmup"}

\* C2: a fetch call in which every attempt fails (non-200, empty body, network
\* exception or blocked body) issues exactly maxRetries GETs and then fails
\* with an error; a call that returned a body has no further attempt running.
C2_ExactRetries ==
    /\ lastCall.result = "raised" =>
          /\ lastCall.gets = RetryBound(lastCall.fn)
          /\ lastCall.error # ""
    /\ lastCall.result = "returned" => pc \notin {"get_html", "request_detail"}

\* C3: at most one warm-up GET per scheme+host, issued before the first real
\* GET to that host; a host counts as warmed whether or not its warm-up GET
\* raised; the warm-up is not an attempt of the call, and after a warm-up that
\* raised the call still issues its real GETs, all DetailRetries of them when
\* every attempt fails.
C3_WarmupOnce ==
    /\ \A i, j \in Warmups : netLog[i].url = netLog[j].url => i = j
    /\ \A j \in 1..Len(netLog) :
          netLog[j].kind = "get" =>
             \E i \in Warmups : i < j /\ netLog[i].url = Referer(netLog[j].url)
    /\ prewarmed = {Domain(netLog[i].url) : i \in Warmups}
    /\ pc = "request_detail" => call.attempt = call.gets
    /\ pc # "aborted"
    /\ \A i \in 1..Len(outcome) :
          outcome[i].warmup = "failed" =>
             /\ outcome[i].gets >= 1
             /\ (outcome[i].result = "failed" /\ outcome[i].text = NoBody) =>
                   outcome[i].gets = DetailRetries

\* Two records on one host: the warm-up of the first raised and its third
\* attempt returned the page; the second was fetched without a warm-up
C3_Witness ==
    /\ pc = "done" /\ Len(outcome) = 2
    /\ outcome[1].warmup = "failed" /\ outcome[1].result = "merged"
    /\ outcome[1].gets = DetailRetries
    /\ outcome[2].warmup = "none" /\ outcome[2].gets >= 1
    /\ Cardinality(Warmups) = 1

\* C7: whatever request_detail or parse_detail raises for a record, the run
\* does not end there: the row of the record keeps its base columns and gets
\* the status "failed: <reason>", the next record is handled, and the CSV is
\* written once, at the end, with one line per input record (after the limit)
\* in input order.
C7_RunCompletes ==
    /\ pc # "aborted"
    /\ Len(rows) = index /\ Len(outcome) = index /\ index <= Len(infos)
    /\ \A i \in 1..index :
          /\ \A c \in 1..Len(BASE_COLUMNS) :
                rows[i][BASE_COLUMNS[c]] = build_base_row(infos[i])[BASE_COLUMNS[c]]
          /\ outcome[i].result = "failed" =>
                /\ rows[i][STATUS][1] = "failed: "
                /\ rows[i][STATUS] =
                      FailedStatus(Message(outcome[i].error, outcome[i].text.sig,
                                           infos[i].link))
    /\ pc # "done" => csvDisk = << >>
    /\ pc = "done" =>
          /\ index = Len(infos)
          /\ Len(csvDisk) = Len(infos) + 1
          /\ csvDisk[1] = Headers
          /\ \A i \in 1..Len(infos) :
                /\ csvDisk[i + 1][1] = filtrate(infos[i].title)
                /\ csvDisk[i + 1][Len(BASE_COLUMNS)] = OrEmpty(infos[i].link)
                /\ outcome[i].result = "failed" =>
                      StatusOf(csvDisk[i + 1]) = rows[i][STATUS]

\* parse_detail raised for the first record, the second was fetched and merged
C7_Witness ==
    /\ pc = "done" /\ Len(infos) = 2 /\ Len(csvDisk) = 3
    /\ outcome[1].result = "failed" /\ outcome[1].error = "ValueError"
    /\ outcome[2].result = "merged"

\* C8: the row of a record without a detail link has its base columns, the
\* status "skipped", and no network request was issued for it.
C8_SkippedStatus ==
    pc = "done" =>
        \A i \in 1..Len(infos) :
            outcome[i].result = "skipped" =>
                /\ StatusOf(csvDisk[i + 1]) = <<"skipped">>
                /\ csvDisk[i + 1][1] = filtrate(infos[i].title)
                /\ outcome[i].gets = 0 /\ outcome[i].warmup = "none"

\* C9: the status written for a record whose fetch was attempted is ok when
\* the page was fetched and parsed and is not login-gated, login_required
\* when it is login-gated, and failed: <reason> when fetch or parse raised.
C9_StatusOneOfThree ==
    pc = "done" =>
        \A i \in 1..Len(infos) :
            outcome[i].result # "skipped" =>
                LET st == StatusOf(csvDisk[i + 1])
                    gated == outcome[i].text.kind = "html" /\ outcome[i].text.login
                IN /\ outcome[i].result = "failed" => (st # << >> /\ st[1] = "failed: ")
                   /\ (outcome[i].result = "merged" /\ gated) =>
                         st = <<"login_required">>
                   /\ (outcome[i].result = "merged" /\ ~gated) => st = <<"ok">>

-----------------------------------------------------------------------------
\* parse_detail(html) applied to one body

\* Bodies handed to parse_detail: parsable or not, with or without a login
\* marker phrase, with or without each of the structures parse_detail reads
ParseInputs ==
    {[kind |-> k, sig |-> FALSE, login |-> l, tags |-> t, sections |-> s,
      transactions |-> tr, layout |-> la] :
        k \in {"html", "blank", "xmldecl"}, l \in BOOLEAN,
        t \in {<< >>, NormalPage.tags},
        s \in {<< >>, NormalPage.sections, StatusTitledPage.sections},
        tr \in {<< >>, NormalPage.transactions},
        la \in {<< >>, NormalPage.layout}}

ParseInit ==
    /\ pc = "parse_detail"
    /\ html \in ParseInputs
    /\ li_idx = 0
    /\ out = NoOut
    /\ infos = << >> /\ csvDisk = << >> /\ printed = << >>
    /\ CrawlIdle /\ DetailIdle /\ FetchIdle

\* detail_data = parse_detail(html), or the exception it raises
ParseCall ==
    /\ pc = "parse_detail"
    /\ out' = parse_detail(html)
    /\ pc' = "parse_done"
    /\ UNCHANGED <<html, li_idx, infos, csvDisk, printed, call, lastCall>>
    /\ UNCHANGED crawlVars /\ UNCHANGED detailVars

ParseSpec == ParseInit /\ [][ParseCall]_vars

\* C11: whenever a login marker phrase occurs in the body, parse_detail
\* returns the map whose only key is the status column, with the value
\* login_required, whatever else the body holds.
C11_LoginShortCircuit ==
    (pc = "parse_done" /\ html.login) =>
        /\ out.raised = ""
        /\ out.data = (STATUS :> <<"login_required">>)

\* C12: in one fetch call every failed attempt that is followed by another
\* attempt is followed by one sleep and the last attempt of the call by none:
\* a call that ended after n GETs slept n - 1 times, and a call that used up
\* its retries slept retries - 1 times before it failed.
C12_SleepsBetweenAttempts ==
    lastCall.result # "" =>
        /\ lastCall.sleeps = lastCall.gets - 1
        /\ (lastCall.result = "raised" /\ lastCall.gets = RetryBound(lastCall.fn)) =>
              lastCall.sleeps = RetryBound(lastCall.fn) - 1

-----------------------------------------------------------------------------
\* categorise(details) applied to the segments of one address text
\* (main.py: details = address_text.split(' | '); categorise(details))

\* The segments an address text is made of: segments of one attribute, of two
\* attributes, of none, and the empty segment
SegmentChoices ==
    {<<"3", "shi", "1", "ting">>, <<"2", "shi">>, <<"89", "pingmi">>,
     <<"nan", "bei">>, <<"dong">>, <<"jingzhuang">>, <<"gao", "ceng">>,
     <<"2010", "nian">>, <<"banlou">>, <<"talou">>, <<"nan", "jingzhuang">>,
     <<"weizhi">>, << >>}

\* The lists of n segments
RECURSIVE SegmentLists(_)
SegmentLists(n) ==
    IF n = 0 THEN {<< >>}
    ELSE {Append(list, seg) : list \in SegmentLists(n - 1), seg \in SegmentChoices}

\* The address texts of 1..max segments, joined by the separator
AddressTexts(max) ==
    {Join(<<" | ">>, list) : list \in UNION {SegmentLists(n) : n \in 1..max}}

CategoriseInit ==
    /\ pc = "categorise"
    /\ html \in AddressTexts(MaxSegments)
    /\ li_idx = 0
    /\ out = NoOut
    /\ infos = << >> /\ csvDisk = << >> /\ printed = << >>
    /\ CrawlIdle /\ DetailIdle /\ FetchIdle

\* res = categorise(details) for the segments of the address text
CategoriseCall ==
    /\ pc = "categorise"
    /\ out' = categorise(Split(html))
    /\ pc' = "categorise_done"
    /\ UNCHANGED <<html, li_idx, infos, csvDisk, printed, call, lastCall>>
    /\ UNCHANGED crawlVars /\ UNCHANGED detailVars

CategoriseSpec == CategoriseInit /\ [][CategoriseCall]_vars

\* The positions of the segments in which a keyword of the attribute occurs
MatchingSegments(key, details) ==
    {i \in 1..Len(details) : Matches(key, details[i])}

\* C13: in the map categorise returns, an attribute is present exactly when a
\* keyword of its keyword set occurs in some segment, its value is the raw
\* text of the last such segment in sequence order, and so no segment is the
\* value of an attribute none of whose keywords occurs in it.
C13_LastMatchWins ==
    pc = "categorise_done" =>
        LET details == Split(html)
        IN /\ DOMAIN out \subseteq Range(FeatureKeys)
           /\ \A key \in Range(FeatureKeys) :
                 LET m == MatchingSegments(key, details)
                 IN /\ key \in DOMAIN out <=> m # {}
                    /\ m # {} =>
                          /\ out[key] = details[CHOOSE i \in m : \A j \in m : j <= i]
                          /\ Matches(key, out[key])

\* Three segments, the first and the last of the attribute towards with
\* different texts: the last one is kept; no segment for the period
C13_Witness ==
    /\ pc = "categorise_done"
    /\ Split(html) = << <<"nan", "bei">>, <<"89", "pingmi">>, <<"dong">> >>
    /\ out["towards"] = <<"dong">>
    /\ DOMAIN out = {"towards", "area"}

-----------------------------------------------------------------------------
\* C14: at the end of a crawl run that accumulated at least one record, the
\* CSV file holds one header row followed by one data row per record of the
\* JSON dataset written by the run, in the same order, whether or not a file
\* of that name was present before the run.
C14_CsvMatchesJson ==
    (pc = "done" /\ infos # << >>) =>
        /\ jsonFile = write_json_dataset(infos)
        /\ Len(csvDisk) = Len(jsonFile) + 1
        /\ csvDisk[1] = CSV_HEADER_CN
        /\ \A i \in 1..Len(infos) : csvDisk[i + 1] = info_to_row(infos[i])

====
